---------------------------- MODULE Spec2Model ----------------------------
(***************************************************************************)
(* ShuffleNet V2 (chainer_/chainercv2/models/shufflenetv2.py).              *)
(*                                                                         *)
(* Three specifications share this module:                                 *)
(*   Spec        the factory get_shufflenetv2, the constructor of          *)
(*               ShuffleNetV2 and one forward call, on tensor SHAPES;       *)
(*   SpecUnit    one call of one ShuffleUnit on channel VALUES;             *)
(*   SpecShuffle ChannelShuffle on channel orderings.                       *)
(*                                                                         *)
(* A width scale is a Python float.  It is modelled as a rational          *)
(* [num, den]; int(c * width_scale) is then the truncated quotient.  The    *)
(* scales of WidthScales are ones for which the IEEE double product,        *)
(* truncated, equals the truncated exact quotient for every base the        *)
(* factory multiplies (116, 232, 464, 1024).                                *)
(***************************************************************************)
EXTENDS Integers, Sequences, FiniteSets, TLC

VARIABLES
    pc,                   \* position of the factory / test / forward call
    width_scale,          \* get_shufflenetv2 argument
    model_name,           \* get_shufflenetv2 argument ("None" stands for None)
    pretrained,           \* get_shufflenetv2 argument
    kwargs,               \* use_se, use_residual, in_channels, classes
    channels,             \* local of get_shufflenetv2
    init_block_channels,  \* local of get_shufflenetv2
    final_block_channels, \* local of get_shufflenetv2
    net,                  \* the constructed ShuffleNetV2, or NoNet
    err,                  \* the exception that ended the call, or "none"
    storeAccess,          \* number of calls of get_model_file / load_npz
    weight_count,         \* _test: net.count_params(), -1 before it ran
    x0,                   \* the input tensor's shape
    x,                    \* the shape of the tensor being threaded through
    si, ui,               \* stage and unit the forward pass is at
    upc, unit, ux, uy2, uy1, uout,   \* SpecUnit
    spc, sC, sG, sx, sy, sz          \* SpecShuffle

netVars == <<pc, width_scale, model_name, pretrained, kwargs, channels,
             init_block_channels, final_block_channels, net, err,
             storeAccess, weight_count, x0, x, si, ui>>
unitVars == <<upc, unit, ux, uy2, uy1, uout>>
shufVars == <<spc, sC, sG, sx, sy, sz>>
vars == <<netVars, unitVars, shufVars>>

---------------------------------------------------------------------------
(* Bounds of the model *)
MaxBatch == 2
MaxOut == 8
MaxC == 12

(* Program constants *)
InitBlockChannels == 24
FinalBlockChannels == 1024
PoolKsize == 7
ShuffleGroups == 2

Layers == <<4, 8, 4>>
ChannelsPerLayers == <<116, 232, 464>>

NoNet == [built |-> FALSE]
NoShape == <<>>

Scale(n, d) == [num |-> n, den |-> d]

(* The four named factories: width scale and model-store key. *)
shufflenetv2_wd2 == [width_scale |-> Scale(12, 29), model_name |-> "shufflenetv2_wd2"]
shufflenetv2_w1 == [width_scale |-> Scale(1, 1), model_name |-> "shufflenetv2_w1"]
shufflenetv2_w3d2 == [width_scale |-> Scale(44, 29), model_name |-> "shufflenetv2_w3d2"]
shufflenetv2_w2 == [width_scale |-> Scale(61, 29), model_name |-> "shufflenetv2_w2"]

NamedFactories == {shufflenetv2_wd2, shufflenetv2_w1, shufflenetv2_w3d2, shufflenetv2_w2}

(* Inputs of direct calls of get_shufflenetv2. *)
WidthScales == {Scale(12, 29), Scale(1, 1), Scale(44, 29), Scale(61, 29),
                Scale(6, 5), Scale(3, 2), Scale(8, 5), Scale(19, 512),
                Scale(1, 4), Scale(2, 1)}
ModelNames == {"None", "", "custom"}
Calls == NamedFactories \cup
         {[width_scale |-> w, model_name |-> m] : w \in WidthScales, m \in ModelNames}
Kwargs == [use_se : BOOLEAN, use_residual : BOOLEAN,
           in_channels : {1, 3}, classes : {10, 1000}]
DefaultKwargs == [use_se |-> FALSE, use_residual |-> FALSE,
                  in_channels |-> 3, classes |-> 1000]
InputSizes == {192, 224, 256}
InputChannels == {3}
Values == {0, 1}

---------------------------------------------------------------------------
(* get_shufflenetv2: the width-scaling arithmetic *)

\* Mutant: the product rounded to the nearest integer instead of truncated.
ScaleIntRounded(c, w) == (2 * c * w.num + w.den) \div (2 * w.den)

\* int(c * width_scale): truncation of the product (c, width_scale > 0).
ScaleInt(c, w) == (c * w.num) \div w.den

\* width_scale != 1.0
NotOne(w) == w.num # w.den

\* Mutant: width_scale >= 1.5
NotNarrowerThan3d2(w) == 2 * w.num >= 3 * w.den

\* width_scale > 1.5
WiderThan3d2(w) == 2 * w.num > 3 * w.den

\* channels = [[ci] * li for (ci, li) in zip(channels_per_layers, layers)]
BaseChannels == [i \in 1..Len(Layers) |-> [j \in 1..Layers[i] |-> ChannelsPerLayers[i]]]

ScaledChannels(w) ==
    IF NotOne(w)
    THEN [i \in 1..Len(BaseChannels) |->
            [j \in 1..Len(BaseChannels[i]) |-> ScaleInt(BaseChannels[i][j], w)]]
    ELSE BaseChannels

ScaledFinalBlockChannels(w) ==
    IF NotOne(w) /\ WiderThan3d2(w)
    THEN ScaleInt(FinalBlockChannels, w)
    ELSE FinalBlockChannels

---------------------------------------------------------------------------
(* Constructors *)

\* ChannelShuffle.__init__ (common): channels must be divisible by groups.
ChannelShuffleInit(chs, groups) ==
    [channels |-> chs, groups |-> groups, ok |-> chs % groups = 0]

\* ShuffleUnit.__init__: the sub-layers and the channel counts they are built for.
ShuffleUnitInit(in_ch, out_ch, downsample, use_se, use_residual) ==
    LET mid_channels == out_ch \div 2 IN
    [in_channels |-> in_ch,
     out_channels |-> out_ch,
     downsample |-> downsample,
     use_se |-> use_se,
     use_residual |-> use_residual,
     mid_channels |-> mid_channels,
     compress_conv1 |-> [in_channels |-> IF downsample THEN in_ch ELSE mid_channels,
                         out_channels |-> mid_channels],
     dw_conv2 |-> [channels |-> mid_channels, stride |-> IF downsample THEN 2 ELSE 1],
     expand_conv3 |-> [in_channels |-> mid_channels, out_channels |-> mid_channels],
     dw_conv4 |-> [channels |-> IF downsample THEN in_ch ELSE 0, stride |-> 2],
     expand_conv5 |-> [in_channels |-> IF downsample THEN in_ch ELSE 0,
                       out_channels |-> IF downsample THEN mid_channels ELSE 0],
     c_shuffle |-> ChannelShuffleInit(mid_channels, ShuffleGroups)]

\* Mutant: in_channels is not updated after a unit is built.
InChannelsNotUpdated(chs, init_ch, i, j) == init_ch

\* The running in_channels of ShuffleNetV2.__init__ when unit j of stage i is built.
RunningInChannels(chs, init_ch, i, j) ==
    IF j > 1 THEN chs[i][j - 1]
    ELSE IF i > 1 THEN chs[i - 1][Len(chs[i - 1])]
    ELSE init_ch

\* ShuffleNetV2.__init__
ShuffleNetV2Init(chs, init_ch, final_ch, kw) ==
    LET stages == [i \in 1..Len(chs) |->
                     [j \in 1..Len(chs[i]) |->
                        ShuffleUnitInit(RunningInChannels(chs, init_ch, i, j),
                                        chs[i][j], j = 1,
                                        kw.use_se, kw.use_residual)]]
        last == chs[Len(chs)][Len(chs[Len(chs)])]
    IN  [built |-> TRUE,
         init_block |-> [in_channels |-> kw.in_channels, out_channels |-> init_ch],
         stages |-> stages,
         final_block |-> [in_channels |-> last, out_channels |-> final_ch],
         final_pool |-> [ksize |-> PoolKsize, stride |-> 1],
         flatten |-> final_ch,
         fc |-> [in_size |-> final_ch, out_size |-> kw.classes]]

\* Whether every assertion of the constructors passed.
ConstructOk(n) ==
    \A i \in 1..Len(n.stages) : \A j \in 1..Len(n.stages[i]) :
        n.stages[i][j].c_shuffle.ok

---------------------------------------------------------------------------
(* count_params: convolution weights, normalization gamma/beta, fc W and b *)

BNParams(size) == 2 * size
Conv1x1Params(c) == c.in_channels * c.out_channels
DepthwiseParams(chs) == chs * 9

ShuffleUnitParams(u) ==
    Conv1x1Params(u.compress_conv1) + BNParams(u.mid_channels)
    + DepthwiseParams(u.dw_conv2.channels) + BNParams(u.mid_channels)
    + Conv1x1Params(u.expand_conv3) + BNParams(u.mid_channels)
    + (IF u.downsample
       THEN DepthwiseParams(u.dw_conv4.channels) + BNParams(u.in_channels)
            + Conv1x1Params(u.expand_conv5) + BNParams(u.mid_channels)
       ELSE 0)

RECURSIVE SumSeq(_)
SumSeq(s) == IF s = <<>> THEN 0 ELSE Head(s) + SumSeq(Tail(s))

CountParams(n) ==
    n.init_block.in_channels * n.init_block.out_channels * 9
    + BNParams(n.init_block.out_channels)
    + SumSeq([i \in 1..Len(n.stages) |->
                SumSeq([j \in 1..Len(n.stages[i]) |-> ShuffleUnitParams(n.stages[i][j])])])
    + Conv1x1Params(n.final_block) + BNParams(n.final_block.out_channels)
    + n.fc.in_size * n.fc.out_size + n.fc.out_size

---------------------------------------------------------------------------
(* Forward pass on shapes <<N, C, H, W>>; "ShapeError" when a layer rejects *)

ShapeError == <<"ShapeError">>
IsError(s) == s = ShapeError

\* Mutant: get_conv_outsize with cover_all=True.
ConvOutsizeCoverAll(size, k, s, p) == ((size + 2 * p - k + s - 1) \div s) + 1

\* chainer get_conv_outsize, cover_all=False
ConvOutsize(size, k, s, p) == ((size + 2 * p - k) \div s) + 1

\* Convolution2D / pooling on the spatial axes.
Spatial(s, c_out, k, st, p) ==
    LET h == ConvOutsize(s[3], k, st, p)
        w == ConvOutsize(s[4], k, st, p)
    IN  IF h > 0 /\ w > 0 THEN <<s[1], c_out, h, w>> ELSE ShapeError

\* A convolution built for in_ch channels applied to a tensor of shape s.
Conv(s, in_ch, out_ch, k, st, p) ==
    IF IsError(s) \/ s[2] # in_ch THEN ShapeError ELSE Spatial(s, out_ch, k, st, p)

\* BatchNormalization(size)
BN(s, size) == IF IsError(s) \/ s[2] # size THEN ShapeError ELSE s

\* F.concat((y1, y2), axis=1)
Concat(y1, y2) ==
    IF IsError(y1) \/ IsError(y2) \/ y1[1] # y2[1] \/ y1[3] # y2[3] \/ y1[4] # y2[4]
    THEN ShapeError
    ELSE <<y1[1], y1[2] + y2[2], y1[3], y1[4]>>

\* channel_shuffle (common): reshape to (batch, groups, channels // groups, h, w).
ShuffleShape(s, groups) ==
    IF IsError(s) \/ (s[2] \div groups) * groups # s[2] THEN ShapeError ELSE s

\* ShuffleUnit.__call__
ShuffleUnitCall(u, s) ==
    LET y1 == IF u.downsample
              THEN BN(Conv(BN(Conv(s, u.dw_conv4.channels, u.dw_conv4.channels, 3, 2, 1),
                              u.in_channels),
                           u.expand_conv5.in_channels, u.expand_conv5.out_channels, 1, 1, 0),
                      u.mid_channels)
              ELSE IF s[2] % 2 = 0 THEN <<s[1], s[2] \div 2, s[3], s[4]>> ELSE ShapeError
        x2 == IF u.downsample THEN s
              ELSE IF s[2] % 2 = 0 THEN <<s[1], s[2] \div 2, s[3], s[4]>> ELSE ShapeError
        c1 == BN(Conv(x2, u.compress_conv1.in_channels, u.compress_conv1.out_channels, 1, 1, 0),
                 u.mid_channels)
        c2 == BN(Conv(c1, u.dw_conv2.channels, u.dw_conv2.channels, 3, u.dw_conv2.stride, 1),
                 u.mid_channels)
        c3 == BN(Conv(c2, u.expand_conv3.in_channels, u.expand_conv3.out_channels, 1, 1, 0),
                 u.mid_channels)
        y2 == IF u.use_residual /\ ~u.downsample /\ ~IsError(c3) /\ c3 # x2
              THEN ShapeError ELSE c3
    IN  ShuffleShape(Concat(y1, y2), u.c_shuffle.groups)

\* ShuffleInitBlock.__call__: conv 3x3 stride 2 pad 1, max-pool 3x3 stride 2 pad 0.
ShuffleInitBlockCall(b, s) ==
    LET c == BN(Conv(s, b.in_channels, b.out_channels, 3, 2, 1), b.out_channels)
    IN  IF IsError(c) THEN ShapeError ELSE Spatial(c, c[2], 3, 2, 0)

\* shuffle_conv1x1 final block
FinalBlockCall(b, s) == BN(Conv(s, b.in_channels, b.out_channels, 1, 1, 0), b.out_channels)

\* F.average_pooling_2d(ksize=7, stride=1)
FinalPoolCall(p, s) == IF IsError(s) THEN ShapeError ELSE Spatial(s, s[2], p.ksize, p.stride, 0)

\* F.reshape(shape=(-1, in_channels)) then L.Linear(in_size, out_size)
OutputCall(n, s) ==
    LET total == s[1] * s[2] * s[3] * s[4] IN
    IF IsError(s) \/ total % n.flatten # 0 THEN ShapeError
    ELSE IF n.flatten # n.fc.in_size THEN ShapeError
    ELSE <<total \div n.flatten, n.fc.out_size>>

---------------------------------------------------------------------------
(* Spec: the factory, the test's count_params and one forward call *)

IdleNet ==
    /\ pc = "idle"
    /\ width_scale = Scale(1, 1)
    /\ model_name = "None"
    /\ pretrained = FALSE
    /\ kwargs = DefaultKwargs
    /\ channels = <<>>
    /\ init_block_channels = 0
    /\ final_block_channels = 0
    /\ net = NoNet
    /\ err = "none"
    /\ storeAccess = 0
    /\ weight_count = -1
    /\ x0 = NoShape
    /\ x = NoShape
    /\ si = 0
    /\ ui = 0

IdleUnit ==
    /\ upc = "idle"
    /\ unit = NoNet
    /\ ux = <<>>
    /\ uy1 = <<>>
    /\ uy2 = <<>>
    /\ uout = <<>>

IdleShuffle ==
    /\ spc = "idle"
    /\ sC = 0
    /\ sG = 0
    /\ sx = <<>>
    /\ sy = <<>>
    /\ sz = <<>>

\* A call of get_shufflenetv2, directly or through a named factory.
Init ==
    /\ pc = "start"
    /\ \E c \in Calls : width_scale = c.width_scale /\ model_name = c.model_name
    /\ pretrained \in BOOLEAN
    /\ kwargs \in Kwargs
    /\ channels = <<>>
    /\ init_block_channels = 0
    /\ final_block_channels = 0
    /\ net = NoNet
    /\ err = "none"
    /\ storeAccess = 0
    /\ weight_count = -1
    /\ x0 = NoShape
    /\ x = NoShape
    /\ si = 0
    /\ ui = 0
    /\ IdleUnit
    /\ IdleShuffle

Raise(e) ==
    /\ pc' = "raised"
    /\ err' = e

\* get_shufflenetv2, lines 319-329
ComputeChannels ==
    /\ UNCHANGED <<unitVars, shufVars>>
    /\ pc = "start"
    /\ pc' = "scaled"
    /\ init_block_channels' = InitBlockChannels
    /\ final_block_channels' = ScaledFinalBlockChannels(width_scale)
    /\ channels' = ScaledChannels(width_scale)
    /\ UNCHANGED <<width_scale, model_name, pretrained, kwargs, net, err,
                   storeAccess, weight_count, x0, x, si, ui>>

\* get_shufflenetv2, lines 331-335: net = ShuffleNetV2(...)
Construct ==
    /\ UNCHANGED <<unitVars, shufVars>>
    /\ pc = "scaled"
    /\ LET n == ShuffleNetV2Init(channels, init_block_channels, final_block_channels, kwargs)
       IN  IF ConstructOk(n)
           THEN /\ net' = n
                /\ pc' = "constructed"
                /\ err' = err
           ELSE /\ net' = net
                /\ Raise("AssertionError")
    /\ UNCHANGED <<width_scale, model_name, pretrained, kwargs, channels,
                   init_block_channels, final_block_channels,
                   storeAccess, weight_count, x0, x, si, ui>>

\* Mutant: the model name is not checked before the store is asked.
AfterConstructUnchecked(pre, name) == IF ~pre THEN "return" ELSE "load"

\* What get_shufflenetv2 does once the net is constructed, lines 337-339:
\* "return" (not pretrained), "raise" (no model name) or "load".
AfterConstruct(pre, name) ==
    IF ~pre THEN "return"
    ELSE IF name = "None" \/ name = "" THEN "raise"
    ELSE "load"

CheckPretrained ==
    /\ UNCHANGED <<unitVars, shufVars>>
    /\ pc = "constructed"
    /\ LET what == AfterConstruct(pretrained, model_name) IN
       /\ what = "return" => pc' = "built" /\ err' = err
       /\ what = "raise" => Raise("ValueError")
       /\ what = "load" => pc' = "loading" /\ err' = err
    /\ UNCHANGED <<width_scale, model_name, pretrained, kwargs, channels,
                   init_block_channels, final_block_channels, net,
                   storeAccess, weight_count, x0, x, si, ui>>

\* get_shufflenetv2, lines 340-347: get_model_file and load_npz; the store may fail.
LoadPretrained ==
    /\ UNCHANGED <<unitVars, shufVars>>
    /\ pc = "loading"
    /\ storeAccess' = storeAccess + 1
    /\ \E loaded \in BOOLEAN :
         IF loaded THEN pc' = "built" /\ err' = err ELSE Raise("WeightLoadError")
    /\ UNCHANGED <<width_scale, model_name, pretrained, kwargs, channels,
                   init_block_channels, final_block_channels, net,
                   weight_count, x0, x, si, ui>>

\* _test, line 436: weight_count = net.count_params().  The parameters of SEBlock
\* are defined outside this file; the count is taken of nets without SE blocks.
TestCountParams ==
    /\ UNCHANGED <<unitVars, shufVars>>
    /\ pc = "built"
    /\ weight_count = -1
    /\ ~kwargs.use_se
    /\ weight_count' = CountParams(net)
    /\ UNCHANGED <<pc, width_scale, model_name, pretrained, kwargs, channels,
                   init_block_channels, final_block_channels, net, err,
                   storeAccess, x0, x, si, ui>>

\* The result of a layer: the tensor moves on, or the call raises.
Step(to, s, i, j) ==
    IF IsError(s)
    THEN /\ Raise("ShapeError")
         /\ x' = NoShape
         /\ UNCHANGED <<si, ui>>
    ELSE /\ pc' = to
         /\ err' = err
         /\ x' = s
         /\ si' = i
         /\ ui' = j

fwdFixed == <<width_scale, model_name, pretrained, kwargs, channels,
              init_block_channels, final_block_channels, net,
              storeAccess, weight_count>>

\* ShuffleNetV2.__call__ on an input of shape <<n, c, h, w>>
Forward ==
    /\ UNCHANGED <<unitVars, shufVars>>
    /\ pc = "built"
    /\ \E n \in 1..MaxBatch, c \in InputChannels, h \in InputSizes, w \in InputSizes :
         /\ x0' = <<n, c, h, w>>
         /\ x' = <<n, c, h, w>>
    /\ pc' = "input"
    /\ UNCHANGED <<err, si, ui>>
    /\ UNCHANGED fwdFixed

ForwardInitBlock ==
    /\ UNCHANGED <<unitVars, shufVars>>
    /\ pc = "input"
    /\ Step("init_block", ShuffleInitBlockCall(net.init_block, x), 0, 0)
    /\ UNCHANGED <<fwdFixed, x0>>

\* The unit after the one whose output x is: <<stage, unit>>, or <<0, 0>> at the end.
NextUnit ==
    IF pc = "init_block" THEN <<1, 1>>
    ELSE IF ui < Len(net.stages[si]) THEN <<si, ui + 1>>
    ELSE IF si < Len(net.stages) THEN <<si + 1, 1>>
    ELSE <<0, 0>>

ForwardUnit ==
    /\ UNCHANGED <<unitVars, shufVars>>
    /\ pc \in {"init_block", "stage"}
    /\ NextUnit # <<0, 0>>
    /\ LET i == NextUnit[1]
           j == NextUnit[2]
       IN  Step("stage", ShuffleUnitCall(net.stages[i][j], x), i, j)
    /\ UNCHANGED <<fwdFixed, x0>>

ForwardFinalBlock ==
    /\ UNCHANGED <<unitVars, shufVars>>
    /\ pc = "stage"
    /\ NextUnit = <<0, 0>>
    /\ Step("final_block", FinalBlockCall(net.final_block, x), si, ui)
    /\ UNCHANGED <<fwdFixed, x0>>

ForwardFinalPool ==
    /\ UNCHANGED <<unitVars, shufVars>>
    /\ pc = "final_block"
    /\ Step("final_pool", FinalPoolCall(net.final_pool, x), si, ui)
    /\ UNCHANGED <<fwdFixed, x0>>

ForwardOutput ==
    /\ UNCHANGED <<unitVars, shufVars>>
    /\ pc = "final_pool"
    /\ Step("returned", OutputCall(net, x), si, ui)
    /\ UNCHANGED <<fwdFixed, x0>>

Next ==
    \/ ComputeChannels
    \/ Construct
    \/ CheckPretrained
    \/ LoadPretrained
    \/ TestCountParams
    \/ Forward
    \/ ForwardInitBlock
    \/ ForwardUnit
    \/ ForwardFinalBlock
    \/ ForwardFinalPool
    \/ ForwardOutput

Spec == Init /\ [][Next]_vars

---------------------------------------------------------------------------
(* Channel values: a tensor is the sequence of its channels' contents *)

Ok(v) == [ok |-> TRUE, v |-> v]
Failed == [ok |-> FALSE, v |-> <<>>]

\* F.reshape of a flat sequence to rows x cols (row-major)
Reshape2(v, rows, cols) == [r \in 1..rows |-> [c \in 1..cols |-> v[(r - 1) * cols + c]]]

\* F.swapaxes of a rows x cols matrix
SwapAxes(m, rows, cols) == [c \in 1..cols |-> [r \in 1..rows |-> m[r][c]]]

\* F.reshape of a rows x cols matrix back to a flat sequence (row-major)
Flatten2(m, rows, cols) ==
    [k \in 1..(rows * cols) |-> m[((k - 1) \div cols) + 1][((k - 1) % cols) + 1]]

\* Mutant: the axes are not swapped.
ChannelShuffleNoSwap(v, groups) == v

\* channel_shuffle (common): reshape to [G, C/G], transpose to [C/G, G], flatten.
ChannelShuffle(v, groups) ==
    LET cpg == Len(v) \div groups IN
    Flatten2(SwapAxes(Reshape2(v, groups, cpg), groups, cpg), cpg, groups)

\* F.split_axis(x, indices_or_sections=2, axis=1)
SplitAxis(v) ==
    IF Len(v) % 2 = 0
    THEN Ok(<<SubSeq(v, 1, Len(v) \div 2), SubSeq(v, (Len(v) \div 2) + 1, Len(v))>>)
    ELSE Failed

\* y2 + x2
Add(a, b) == [k \in 1..Len(a) |-> a[k] + b[k]]

\* Mutant: the residual connection is left out.
ResidualDropped(u, y2, x2) == y2

\* The residual connection of ShuffleUnit.__call__, lines 181-182.
Residual(u, y2, x2) == IF u.use_residual /\ ~u.downsample THEN Add(y2, x2) ELSE y2

\* SEBlock (common): each channel is rescaled by a gate in (0, 1).
SEOutputs(t) == {s \in [1..Len(t) -> Values] : \A k \in 1..Len(t) : (s[k] = 0) <=> (t[k] = 0)}

\* ShuffleUnit.__call__ on channel values.  t1 and t2 are what the convolutions
\* of the two branches produce (they depend on the weights): t1 after expand_bn5
\* and activ, t2 after expand_bn3, activ and the SE block.
ShuffleUnitCallValues(u, v, t1, t2) ==
    IF u.downsample
    THEN IF Len(v) # u.dw_conv4.channels \/ Len(v) # u.compress_conv1.in_channels
         THEN Failed
         ELSE Ok(ChannelShuffle(t1 \o Residual(u, t2, v), u.c_shuffle.groups))
    ELSE LET sp == SplitAxis(v) IN
         IF ~sp.ok THEN Failed
         ELSE IF Len(sp.v[2]) # u.compress_conv1.in_channels THEN Failed
         ELSE Ok(ChannelShuffle(sp.v[1] \o Residual(u, t2, sp.v[2]), u.c_shuffle.groups))

---------------------------------------------------------------------------
(* SpecUnit: one ShuffleUnit, constructed and called once *)

UnitParams ==
    {[in_channels |-> i, out_channels |-> o, downsample |-> d,
      use_se |-> se, use_residual |-> r] :
        i \in 1..MaxOut, o \in 2..MaxOut, d \in BOOLEAN, se \in BOOLEAN, r \in BOOLEAN}

InitUnit ==
    /\ upc = "start"
    /\ unit \in {p \in UnitParams : IF p.downsample THEN p.in_channels <= 2
                                     ELSE p.in_channels = p.out_channels}
    /\ ux = <<>>
    /\ uy1 = <<>>
    /\ uy2 = <<>>
    /\ uout = <<>>
    /\ IdleNet
    /\ IdleShuffle

\* ShuffleUnit(in_channels, out_channels, downsample, use_se, use_residual)
UnitConstruct ==
    /\ upc = "start"
    /\ LET u == ShuffleUnitInit(unit.in_channels, unit.out_channels, unit.downsample,
                                unit.use_se, unit.use_residual)
       IN  IF u.c_shuffle.ok
           THEN unit' = u /\ upc' = "constructed"
           ELSE unit' = unit /\ upc' = "raised"
    /\ UNCHANGED <<ux, uy1, uy2, uout>>
    /\ UNCHANGED <<netVars, shufVars>>

\* unit(x): the input has the channels the unit was declared with, or the
\* channels the previous unit really produced (2 * mid_channels).
UnitCall ==
    /\ upc = "constructed"
    /\ \E len \in {unit.in_channels} \cup
                  (IF unit.downsample THEN {} ELSE {2 * unit.mid_channels}) :
       \E v \in [1..len -> Values] :
       \E t1 \in [1..unit.mid_channels -> Values] :
       \E t \in [1..unit.mid_channels -> Values] :
       \E t2 \in (IF unit.use_se THEN SEOutputs(t) ELSE {t}) :
         LET r == ShuffleUnitCallValues(unit, v, t1, t2) IN
         /\ ux' = v
         /\ uy1' = IF unit.downsample THEN t1 ELSE <<>>
         /\ uy2' = t2
         /\ uout' = r.v
         /\ upc' = IF r.ok THEN "returned" ELSE "raised"
    /\ UNCHANGED unit
    /\ UNCHANGED <<netVars, shufVars>>

NextUnitSpec ==
    \/ UnitConstruct
    \/ UnitCall

SpecUnit == InitUnit /\ [][NextUnitSpec]_vars

---------------------------------------------------------------------------
(* SpecShuffle: ChannelShuffle(channels=C, groups=G), applied, then its inverse *)

InitShuffle ==
    /\ spc = "start"
    /\ sC \in 1..MaxC
    /\ sG \in 1..MaxC
    /\ sG <= sC
    /\ sx = [k \in 1..sC |-> k - 1]
    /\ sy = <<>>
    /\ sz = <<>>
    /\ IdleNet
    /\ IdleUnit

ShuffleConstruct ==
    /\ spc = "start"
    /\ spc' = IF ChannelShuffleInit(sC, sG).ok THEN "constructed" ELSE "raised"
    /\ UNCHANGED <<sC, sG, sx, sy, sz>>
    /\ UNCHANGED <<netVars, unitVars>>

ShuffleCall ==
    /\ spc = "constructed"
    /\ sy' = ChannelShuffle(sx, sG)
    /\ spc' = "shuffled"
    /\ UNCHANGED <<sC, sG, sx, sz>>
    /\ UNCHANGED <<netVars, unitVars>>

ShuffleBack ==
    /\ spc = "shuffled"
    /\ sz' = ChannelShuffle(sy, sC \div sG)
    /\ spc' = "restored"
    /\ UNCHANGED <<sC, sG, sx, sy>>
    /\ UNCHANGED <<netVars, unitVars>>

NextShuffle ==
    \/ ShuffleConstruct
    \/ ShuffleCall
    \/ ShuffleBack

SpecShuffle == InitShuffle /\ [][NextShuffle]_vars

---------------------------------------------------------------------------
(* Properties *)

\* The call came through one of the four named factories.
ThroughNamedFactory ==
    [width_scale |-> width_scale, model_name |-> model_name] \in NamedFactories

\* C1: with default arguments, the parameter counts of the nets the four named
\* factories build are 1,366,792 (wd2), 2,278,604 (w1), 4,406,098 (w3d2) and
\* 7,601,686 (w2).
C1_ParamCounts ==
    (weight_count # -1 /\ ThroughNamedFactory /\ kwargs = DefaultKwargs) =>
        /\ model_name = "shufflenetv2_wd2" => weight_count = 1366792
        /\ model_name = "shufflenetv2_w1" => weight_count = 2278604
        /\ model_name = "shufflenetv2_w3d2" => weight_count = 4406098
        /\ model_name = "shufflenetv2_w2" => weight_count = 7601686

C1_Witness ==
    /\ model_name = "shufflenetv2_w3d2"
    /\ kwargs = DefaultKwargs
    /\ weight_count = 4406098

\* Every stage channel count the factory computed is even.
AllChannelsEven ==
    \A i \in 1..Len(channels) : \A j \in 1..Len(channels[i]) : channels[i][j] % 2 = 0

\* C2: for a built net with even stage channel counts, the forward pass of an
\* input [N, in_channels, 224, 224] raises nowhere, every unit puts out the
\* channel count it was built for, the feature map before the final pooling is
\* 7x7, and the output is [N, classes].
C2_ForwardShape ==
    (x0 # NoShape /\ x0[2] = kwargs.in_channels /\ x0[3] = 224 /\ x0[4] = 224
     /\ AllChannelsEven) =>
        /\ pc # "raised"
        /\ pc = "stage" => x[2] = net.stages[si][ui].out_channels
        /\ pc = "final_block" => x[3] = 7 /\ x[4] = 7
        /\ pc = "returned" => x = <<x0[1], kwargs.classes>>

C2_Witness ==
    /\ pc = "returned"
    /\ width_scale = Scale(12, 29)
    /\ x0 = <<1, 3, 224, 224>>
    /\ x = <<1, 1000>>

\* The size of the feature map the final pooling receives for an input of this size:
\* the init block's convolution and pooling, then the three downsampling units.
FeatureMapSize(size) ==
    LET stem == ConvOutsize(ConvOutsize(size, 3, 2, 1), 3, 2, 0)
    IN  ConvOutsize(ConvOutsize(ConvOutsize(stem, 3, 2, 1), 3, 2, 1), 3, 2, 1)

\* C3: a forward call returns only if the feature map before the final pooling
\* is 7x7, and what it returns has the batch size of its input.
C3_MismatchedResolutionRaises ==
    pc = "returned" =>
        /\ FeatureMapSize(x0[3]) = PoolKsize
        /\ FeatureMapSize(x0[4]) = PoolKsize
        /\ x[1] = x0[1]

\* C4: the tensor a ShuffleUnit puts out has the out_channels the unit was
\* constructed with.
C4_UnitOutputChannels ==
    pc = "stage" => x[2] = net.stages[si][ui].out_channels

\* C5: no net is constructed when a truncated stage channel count is odd.
C5_OddChannelsFailConstruction ==
    net.built => AllChannelsEven

\* C6: with pretrained and no model name the factory ends in an error and the
\* weight store is never accessed; without pretrained it is never accessed.
C6_NoStoreAccessWithoutName ==
    /\ ~pretrained => storeAccess = 0
    /\ (pretrained /\ model_name \in {"None", ""}) =>
          /\ storeAccess = 0
          /\ pc \in {"start", "scaled", "constructed", "raised"}
          /\ pc = "raised" => err \in {"ValueError", "AssertionError"}

C6_Witness ==
    /\ pretrained
    /\ model_name = "None"
    /\ pc = "raised"
    /\ err = "ValueError"
    /\ storeAccess = 0

\* C7: the factory passes final_block_channels = floor(1024 * w) when w > 1.5
\* and 1024 when w <= 1.5; init_block_channels is 24 for every w.
C7_FinalBlockChannels ==
    pc # "start" =>
        /\ init_block_channels = 24
        /\ final_block_channels =
              IF 2 * width_scale.num > 3 * width_scale.den
              THEN (1024 * width_scale.num) \div width_scale.den
              ELSE 1024
        /\ width_scale = Scale(8, 5) => final_block_channels = 1638
        /\ width_scale \in {Scale(6, 5), Scale(3, 2), Scale(1, 1)} => final_block_channels = 1024
        /\ net.built => /\ net.final_block.out_channels = final_block_channels
                        /\ net.init_block.out_channels = init_block_channels

C7_Witness ==
    /\ pc = "scaled"
    /\ width_scale = Scale(8, 5)
    /\ final_block_channels = 1638

\* C10: in a built net only the first unit of a stage has in_channels different
\* from out_channels, and the half a non-downsampling unit splits off its actual
\* input has the mid_channels its first 1x1 projection was built for.
C10_SplitMatchesMid ==
    net.built =>
        /\ \A i \in 1..Len(net.stages) : \A j \in 1..Len(net.stages[i]) :
              LET u == net.stages[i][j] IN
              /\ u.downsample <=> j = 1
              /\ ~u.downsample => u.in_channels = u.out_channels
              /\ u.in_channels # u.out_channels => j = 1
              /\ u.mid_channels = u.out_channels \div 2
        /\ (pc \in {"init_block", "stage"} /\ NextUnit # <<0, 0>>) =>
              LET u == net.stages[NextUnit[1]][NextUnit[2]] IN
              ~u.downsample =>
                  /\ x[2] % 2 = 0
                  /\ x[2] \div 2 = u.mid_channels
                  /\ x[2] \div 2 = u.compress_conv1.in_channels

C10_Witness ==
    /\ pc = "stage"
    /\ width_scale = Scale(19, 512)
    /\ si = 3
    /\ ui = 2
    /\ x[2] = 16

\* The delta the transform branch produced is zero in every channel.
ZeroDelta == \A k \in 1..Len(uy2) : uy2[k] = 0

\* C9 as stated: with use_residual and an all-zero delta, channels
\* out_channels/2 .. out_channels-1 of what a non-downsampling unit returns are
\* the second half of its input.
C9_SecondHalfOfOutput ==
    (upc = "returned" /\ ~unit.downsample /\ unit.use_residual /\ ZeroDelta) =>
        SubSeq(uout, unit.mid_channels + 1, 2 * unit.mid_channels)
            = SubSeq(ux, unit.mid_channels + 1, 2 * unit.mid_channels)

\* C9 as amended: with use_residual and an all-zero delta, the channels of the
\* second half of a non-downsampling unit's input are, after the channel
\* shuffle, the channels at the odd indices 2o+1 (from 0) of what it returns.
C9_ResidualIdentity ==
    (upc = "returned" /\ ~unit.downsample /\ unit.use_residual /\ ZeroDelta) =>
        \A o \in 1..unit.mid_channels : uout[2 * o] = ux[unit.mid_channels + o]

C9_Witness ==
    /\ upc = "returned"
    /\ ~unit.downsample
    /\ unit.use_residual
    /\ ZeroDelta
    /\ ux = <<0, 1, 0, 1>>
    /\ uout = <<0, 0, 1, 1>>

\* C8: ChannelShuffle with G groups on C channels moves the channel at index
\* g*(C/G)+o to index o*G+g, permutes the channels, and ChannelShuffle with
\* C/G groups applied to the result restores the original order.
C8_ShuffleRoundTrip ==
    /\ spc \in {"shuffled", "restored"} =>
          /\ Len(sy) = sC
          /\ \A g \in 0..(sG - 1) : \A o \in 0..((sC \div sG) - 1) :
                sy[o * sG + g + 1] = sx[g * (sC \div sG) + o + 1]
          /\ \A k \in 1..sC : \E m \in 1..sC : sy[m] = sx[k]
    /\ spc = "restored" => sz = sx

C8_Witness ==
    /\ spc = "restored"
    /\ sC = 6
    /\ sG = 2
    /\ sy = <<0, 3, 1, 4, 2, 5>>
    /\ sz = sx

===========================================================================
